---- MODULE Spec2Model ----
(***************************************************************************)
(* Model of the RealSense tools: the stream viewer                         *)
(* (src/src/realsense_viewer.rs) and the 3D viewer                         *)
(* (src/src/realsense_3d_viewer.rs).                                       *)
(*                                                                         *)
(* Six specifications share the variables:                                 *)
(*   SpecColormap  the pure colour functions jet_colormap and lerp_color;  *)
(*   SpecView3D    MyApp::update of the 3D viewer;                         *)
(*   SpecViewer    MyApp::update of the stream viewer;                     *)
(*   SpecDevices   the functions that read device info, and the start of   *)
(*                 the 3D viewer's pipeline;                               *)
(*   SpecMotion    the bars of a motion panel of the stream viewer;        *)
(*   SpecPixels    the buffer entries the 3D viewer writes for two pixels  *)
(*                 of a frame of any size.                                 *)
(***************************************************************************)
EXTENDS Integers, Sequences, FiniteSets, TLC

(***************************************************************************)
(* f32 arithmetic.  The colour code computes in f32; a finite f32 is       *)
(* modelled exactly as (-1)^s * m * 2^e with m = 0 or 2^23 <= m < 2^24,    *)
(* and every operation rounds to nearest, ties to even, as IEEE 754 does.  *)
(* Division by zero yields inf or nan as in Rust.  Subnormals and overflow *)
(* to infinity do not occur for the magnitudes the programs handle         *)
(* (depths 0..65535, intensities 0..255, ramp stops in [0,1], sensor       *)
(* readings of a few tens, panel heights of a few hundred) and are not     *)
(* modelled.  The sign of a zero is not kept: no operation used here       *)
(* distinguishes -0.0 from 0.0.                                            *)
(***************************************************************************)
P23 == 2^23
P24 == 2^24

F32Zero == [k |-> "num", s |-> 0, m |-> 0, e |-> 0]
F32NaN == [k |-> "nan", s |-> 0, m |-> 0, e |-> 0]
F32Inf(s) == [k |-> "inf", s |-> s, m |-> 0, e |-> 0]

\* Number of bits of n, 0 <= n < 2^30.
BitLen(n) == CHOOSE b \in 0..30 : (b = 0 \/ n >= 2^(b - 1)) /\ n < 2^b

\* Round (-1)^s * (n + f) * 2^e to f32, where 0 <= n < 2^30 and f is a
\* fraction in [0,1) that is nonzero iff sticky = 1.  A sticky fraction needs
\* n to have at least 25 bits, which every caller provides.
F32Round(s, n, e, sticky) ==
    IF n = 0 THEN F32Zero
    ELSE LET b == BitLen(n) IN
         IF b <= 24
         THEN [k |-> "num", s |-> s, m |-> n * 2^(24 - b), e |-> e - (24 - b)]
         ELSE LET sh == b - 24
                  q == n \div 2^sh
                  r == n % 2^sh
                  half == 2^(sh - 1)
                  up == \/ r > half
                        \/ r = half /\ sticky = 1
                        \/ r = half /\ sticky = 0 /\ q % 2 = 1
                  q1 == IF up THEN q + 1 ELSE q
              IN IF q1 = P24
                 THEN [k |-> "num", s |-> s, m |-> P23, e |-> e + sh + 1]
                 ELSE [k |-> "num", s |-> s, m |-> q1, e |-> e + sh]

\* u8, u16 or a small integer literal `as f32`: exact below 2^24.
F32FromInt(i) == IF i < 0 THEN F32Round(1, -i, 0, 0) ELSE F32Round(0, i, 0, 0)

F32Neg(a) == IF a.k = "nan" \/ (a.k = "num" /\ a.m = 0) THEN a
             ELSE [a EXCEPT !.s = 1 - a.s]

\* |a| < |b| for finite a, b.
F32MagLt(a, b) ==
    IF b.m = 0 THEN FALSE
    ELSE IF a.m = 0 THEN TRUE
    ELSE a.e < b.e \/ (a.e = b.e /\ a.m < b.m)

\* a < b; false when either is nan.
F32Lt(a, b) ==
    IF a.k = "nan" \/ b.k = "nan" THEN FALSE
    ELSE IF a.k = "inf" THEN a.s = 1 /\ ~(b.k = "inf" /\ b.s = 1)
    ELSE IF b.k = "inf" THEN b.s = 0
    ELSE IF a.s # b.s THEN a.s = 1
    ELSE IF a.s = 0 THEN F32MagLt(a, b)
    ELSE F32MagLt(b, a)

\* a + b for finite a, b (nan propagates).
F32Add(a, b) ==
    IF a.k = "nan" \/ b.k = "nan" THEN F32NaN
    ELSE IF a.k = "inf" \/ b.k = "inf"
    THEN IF a.k = "inf" /\ b.k = "inf" /\ a.s # b.s THEN F32NaN
         ELSE IF a.k = "inf" THEN a ELSE b
    ELSE IF a.m = 0 THEN b
    ELSE IF b.m = 0 THEN a
    ELSE LET x == IF F32MagLt(a, b) THEN b ELSE a
             y == IF F32MagLt(a, b) THEN a ELSE b
             e == x.e - 5
             xm == x.m * 32
             sh == e - y.e
             ym == IF sh <= 0 THEN y.m * 2^(-sh)
                   ELSE IF sh >= 30 THEN 0
                   ELSE y.m \div 2^sh
             st == IF sh <= 0 THEN 0
                   ELSE IF sh >= 30 THEN 1
                   ELSE IF y.m % 2^sh # 0 THEN 1 ELSE 0
         IN IF x.s = y.s
            THEN F32Round(x.s, xm + ym, e, st)
            ELSE F32Round(x.s, xm - ym - st, e, st)

F32Sub(a, b) == F32Add(a, F32Neg(b))

\* a * b: the 48-bit product of the mantissas in 12-bit limbs.
F32Mul(a, b) ==
    IF a.k = "nan" \/ b.k = "nan" THEN F32NaN
    ELSE IF a.k = "inf" \/ b.k = "inf"
    THEN IF (a.k = "num" /\ a.m = 0) \/ (b.k = "num" /\ b.m = 0) THEN F32NaN
         ELSE F32Inf((a.s + b.s) % 2)
    ELSE IF a.m = 0 \/ b.m = 0 THEN F32Zero
    ELSE LET a1 == a.m \div 4096
             a0 == a.m % 4096
             b1 == b.m \div 4096
             b0 == b.m % 4096
             cross == a1 * b0 + a0 * b1
             low == (cross % 4096) * 4096 + a0 * b0
             lo == low % P24
             hi == a1 * b1 + cross \div 4096 + low \div P24
         IN F32Round((a.s + b.s) % 2, hi * 32 + lo \div 2^19,
                     a.e + b.e + 19, IF lo % 2^19 # 0 THEN 1 ELSE 0)

\* Long division: n more quotient bits of r / d appended to q; <<q, r>>.
RECURSIVE F32DivBits(_, _, _, _)
F32DivBits(r, d, q, n) ==
    IF n = 0 THEN <<q, r>>
    ELSE IF 2 * r >= d THEN F32DivBits(2 * r - d, d, 2 * q + 1, n - 1)
    ELSE F32DivBits(2 * r, d, 2 * q, n - 1)

\* a / b.
F32Div(a, b) ==
    IF a.k = "nan" \/ b.k = "nan" THEN F32NaN
    ELSE IF a.k = "inf" THEN IF b.k = "inf" THEN F32NaN ELSE F32Inf((a.s + b.s) % 2)
    ELSE IF b.k = "inf" THEN F32Zero
    ELSE IF b.m = 0 THEN IF a.m = 0 THEN F32NaN ELSE F32Inf((a.s + b.s) % 2)
    ELSE IF a.m = 0 THEN F32Zero
    ELSE LET qr == F32DivBits(a.m % b.m, b.m, a.m \div b.m, 26)
         IN F32Round((a.s + b.s) % 2, qr[1], a.e - b.e - 26,
                     IF qr[2] # 0 THEN 1 ELSE 0)

\* f32::clamp(lo, hi): nan stays nan.
F32Clamp(a, lo, hi) ==
    IF F32Lt(a, lo) THEN lo ELSE IF F32Lt(hi, a) THEN hi ELSE a

\* `as u8`: truncates toward zero, saturates at 0 and 255, nan gives 0.
F32AsU8(a) ==
    IF a.k = "nan" THEN 0
    ELSE IF a.k = "inf" THEN IF a.s = 1 THEN 0 ELSE 255
    ELSE IF a.s = 1 \/ a.m = 0 THEN 0
    ELSE IF a.e >= 0 THEN 255
    ELSE IF -a.e >= 24 THEN 0
    ELSE LET i == a.m \div 2^(-a.e) IN IF i > 255 THEN 255 ELSE i

\* A decimal literal p/q of the source (0.25, 0.8, 0.05, ...): rustc rounds the
\* exact decimal to the nearest f32, which is the rounded quotient of p by q.
F32Lit(p, q) == F32Div(F32FromInt(p), F32FromInt(q))

(***************************************************************************)
(* Stream viewer: the colour ramp of the depth image.                      *)
(***************************************************************************)
F32One == F32FromInt(1)

\* Ramp colours of jet_colormap, (r, g, b).
Blue == <<0, 0, 255>>
Cyan == <<0, 255, 255>>
\* The colour the stale comment of the third branch names ("Green -> Yellow").
Green == <<0, 255, 0>>
Yellow == <<255, 255, 0>>
Red == <<255, 0, 0>>
Black == <<0, 0, 0>>

\* One channel of lerp_color: (c_min as f32 + t * (c_max as f32 - c_min as f32)) as u8.
lerp_channel(t, c_min, c_max) ==
    F32AsU8(F32Add(F32FromInt(c_min),
                   F32Mul(t, F32Sub(F32FromInt(c_max), F32FromInt(c_min)))))

\* lerp_t without the clamp.
lerp_t_unclamped(value, v_min, v_max) ==
    F32Div(F32Sub(value, v_min), F32Sub(v_max, v_min))

\* Position of value between v_min and v_max, clamped to [0,1].
lerp_t(value, v_min, v_max) ==
    F32Clamp(F32Div(F32Sub(value, v_min), F32Sub(v_max, v_min)), F32Zero, F32One)

lerp_color(value, v_min, c_min, v_max, c_max) ==
    LET t == lerp_t(value, v_min, v_max)
    IN <<lerp_channel(t, c_min[1], c_max[1]),
         lerp_channel(t, c_min[2], c_max[2]),
         lerp_channel(t, c_min[3], c_max[3])>>

\* The start of the interval the last branch of jet_colormap interpolates on.
LastStop == F32Lit(8, 10)

jet_colormap(value) ==
    LET v == F32Clamp(value, F32Zero, F32One)
    IN IF F32Lt(v, F32Lit(25, 100))
       THEN lerp_color(v, F32Zero, Blue, F32Lit(25, 100), Cyan)
       ELSE IF F32Lt(v, F32Lit(5, 10))
       THEN lerp_color(v, F32Lit(25, 100), Cyan, F32Lit(5, 10), Yellow)
       ELSE IF F32Lt(v, F32Lit(75, 100))
       THEN lerp_color(v, F32Lit(5, 10), Yellow, F32Lit(75, 100), Red)
       ELSE lerp_color(v, LastStop, Red, F32One, Black)

\* max_value of depth_frame_to_rgb_img and max_depth of the 3D viewer: 4 m.
MaxDepthMm == 4000

\* One pixel of depth_frame_to_rgb_img: normalized = depth as f32 / max_value.
depth_pixel_to_rgb(depth) ==
    jet_colormap(F32Div(F32FromInt(depth), F32FromInt(MaxDepthMm)))

(***************************************************************************)
(* State.                                                                  *)
(***************************************************************************)
VARIABLES
    call,       \* SpecColormap: the pending call of a pure function
    result,     \* SpecColormap: what the call returned, None before it ran
    \* 3D viewer, MyApp:
    depth_frame,                \* Option<DepthFrame>
    infrared_frame,             \* Option<InfraredFrame>
    instance_translation_vbo,   \* contents of the translation buffer
    instance_height_vbo,        \* contents of the height buffer
    instance_color_vbo,         \* contents of the colour buffer
    \* 3D viewer, environment and history:
    frame_number,               \* composite frames the pipeline has delivered
    taken,                      \* the pair the latest update took from the slots
    panic_msg,                  \* None, or the message the program panicked with
    \* stream viewer, MyApp:
    dev_index,                  \* u8
    warning,                    \* Option<String>
    pipeline,                   \* Option<ActivePipeline>
    stream_enabled,             \* the six *_stream_enabled flags
    \* stream viewer, environment and history:
    connected,                  \* the devices query_devices reports, in order
    shown_warning,              \* what the bottom panel showed in the latest update
    pipeline_ops                \* what the latest update did to the pipeline, in order:
                                \* <<"stop">>, <<"start", serial>>, <<"wait", delivered>>

vars3d == <<depth_frame, infrared_frame, instance_translation_vbo,
            instance_height_vbo, instance_color_vbo, frame_number, taken>>

varsViewer == <<dev_index, warning, pipeline, stream_enabled, connected,
                shown_warning, pipeline_ops>>

vars == <<call, result, vars3d, panic_msg, varsViewer>>

\* Option<T>: None is the empty sequence and Some(v) the sequence of v alone.
None == <<>>
Some(v) == <<v>>

\* The six streams of the stream viewer, by the name of their flag.
StreamNames == {"depth", "color", "infrared_1", "infrared_2", "accel", "gyro"}

\* The state MyApp::new of the stream viewer constructs.
new_viewer ==
    /\ dev_index = 0
    /\ warning = None
    /\ pipeline = None
    /\ stream_enabled = [n \in StreamNames |-> TRUE]
    /\ shown_warning = None
    /\ pipeline_ops = <<>>

(***************************************************************************)
(* 3D viewer (realsense_3d_viewer.rs).                                     *)
(*                                                                         *)
(* A buffer of f32 is a record: `fill` is the value vec![fill; n] gave     *)
(* every entry and `at` maps each index written since to its value.        *)
(* MyApp.previous_frames is written and never read; it is left out, as are *)
(* the camera (translation, rotation) and the GL objects.                  *)
(***************************************************************************)
\* The instances form a 640 x 640 grid.
GridSide == 640
instance_number == GridSide * GridSide

Buffer(fill, len) == [fill |-> fill, len |-> len, at |-> <<>>]
BufferGet(buf, i) == IF i \in DOMAIN buf.at THEN buf.at[i] ELSE buf.fill
BufferSet(buf, i, v) ==
    [buf EXCEPT !.at = [k \in DOMAIN buf.at \cup {i} |-> IF k = i THEN v ELSE buf.at[k]]]

\* --- MyApp::new ---
\* A frame of the model has at most MaxPixels pixels.  The model keeps the
\* translation of the instances at the grid coordinates 0..MaxPixels (what
\* such a frame can address, in either index order) and at the last row and
\* column.
MaxPixels == 2
TrackedCoords == 0..MaxPixels \cup {GridSide - 1}

\* Index of the instance of grid position (x, y) in new, of pixel (x, yy) in update.
new_instance_index(x, y) == x * GridSide + y
row_major_index(x, yy) == yy * GridSide + x
\* An index with a stride one short of the grid side.
short_stride_index(x, yy) == x * (GridSide - 1) + yy
update_instance_index(x, yy) == x * GridSide + yy

translation_of(c) == F32Div(F32Sub(F32FromInt(c), F32FromInt(320)), F32FromInt(100))

RECURSIVE fill_translation(_, _)
fill_translation(coords, translation_data) ==
    IF coords = <<>> THEN translation_data
    ELSE LET x == Head(coords)[1]
             y == Head(coords)[2]
             base_index == new_instance_index(x, y) * 2
         IN fill_translation(Tail(coords),
                BufferSet(BufferSet(translation_data, base_index, translation_of(x)),
                          base_index + 1, translation_of(y)))

\* The pairs of S x S in the order of `for x in S { for y in S {..} }`.
RECURSIVE SeqOfSet(_)
SeqOfSet(S) ==
    IF S = {} THEN <<>>
    ELSE LET m == CHOOSE a \in S : \A b \in S : a <= b IN <<m>> \o SeqOfSet(S \ {m})
LoopOrder(xs, ys) ==
    LET sx == SeqOfSet(xs)
        sy == SeqOfSet(ys)
    IN [k \in 1..(Len(sx) * Len(sy)) |->
           <<sx[((k - 1) \div Len(sy)) + 1], sy[((k - 1) % Len(sy)) + 1]>>]

new_translation_data ==
    fill_translation(LoopOrder(TrackedCoords, TrackedCoords),
                     Buffer(F32Zero, instance_number * 2))

\* --- frames ---
\* A frame is [number, width, height, emitter, data]: the number of the
\* composite frame it came in, the FrameEmitterMode metadata (an Option) and
\* data[<<col, row>>].  The pixels of an image are drawn from a sample list,
\* shifted by a seed, so that neighbouring pixels differ.
DepthSeeds == {0, 1, 2}
InfraredSeeds == {0}
DepthSamples == <<201, 200, 3000, 4000, 65535, 0>>
InfraredSamples == <<255, 0, 128, 1, 254>>
EmitterModes == {None, Some(0), Some(1)}

Image(samples, w, h, seed) ==
    [p \in (0..(w - 1)) \X (0..(h - 1)) |->
        samples[((seed + p[1] + MaxPixels * p[2]) % Len(samples)) + 1]]

FrameSizes == {wh \in (1..MaxPixels) \X (1..MaxPixels) : wh[1] * wh[2] <= MaxPixels}

Frames(samples, seeds, n) ==
    {[number |-> n, width |-> wh[1], height |-> wh[2], emitter |-> em,
      data |-> Image(samples, wh[1], wh[2], seed)] :
        wh \in FrameSizes, em \in EmitterModes, seed \in seeds}

\* frames_of_type::<T>() of a composite frame: the configuration enables one
\* depth stream and one infrared stream, so each list holds at most one frame.
FrameLists(samples, seeds, n) == {<<>>} \cup {<<f>> : f \in Frames(samples, seeds, n)}

CompositeFrames(n) ==
    {[depth |-> d, infrared |-> i] :
        d \in FrameLists(DepthSamples, DepthSeeds, n),
        i \in FrameLists(InfraredSamples, InfraredSeeds, n)}

frame_of_type_with_emitter(frames, emitter_mode) ==
    IF frames = <<>> THEN None
    ELSE LET mode == frames[1].emitter
         IN IF mode = None THEN None
            ELSE IF mode[1] = emitter_mode THEN Some(Head(frames))
            ELSE None

\* --- MyApp::update ---
max_depth == 4000

\* frame.get_unchecked(col, row).  update reads the infrared frame only after
\* it has checked that both frames have the same size, so every read is
\* inside the image; the other branch is never taken.
get_unchecked(frame, col, row) ==
    IF <<col, row>> \in DOMAIN frame.data THEN frame.data[<<col, row>>] ELSE 0

normalized_depth(depth) ==
    F32Clamp(F32Div(F32FromInt(depth), F32FromInt(max_depth)), F32Zero, F32One)

\* normalized >= 0.05
is_near_enough_inclusive(normalized) == ~F32Lt(normalized, F32Lit(5, 100))

\* normalized > 0.05
is_near_enough(normalized) == F32Lt(F32Lit(5, 100), normalized)

height_of(normalized) == F32Mul(F32Sub(F32One, normalized), F32FromInt(4))
intensity_unscaled(y) == F32FromInt(y)
intensity_of(y) == F32Div(F32FromInt(y), F32FromInt(255))

\* The body of the two loops for the pixels of `pixels`, in order; `data` is
\* [depth_data, infrared_data].
RECURSIVE fill_instances(_, _, _, _)
fill_instances(pixels, depth, infrared, data) ==
    IF pixels = <<>> THEN data
    ELSE LET x == Head(pixels)[1]
             yy == Head(pixels)[2]
             normalized == normalized_depth(get_unchecked(depth, x, yy))
             base_index == update_instance_index(x, yy) * 4
             i == intensity_of(get_unchecked(infrared, x, yy))
         IN IF is_near_enough(normalized)
            THEN fill_instances(Tail(pixels), depth, infrared,
                    [depth_data |->
                        BufferSet(data.depth_data, update_instance_index(x, yy),
                                  height_of(normalized)),
                     infrared_data |->
                        BufferSet(BufferSet(BufferSet(BufferSet(data.infrared_data,
                            base_index, i), base_index + 1, i), base_index + 2, i),
                            base_index + 3, F32One)])
            ELSE fill_instances(Tail(pixels), depth, infrared, data)

instance_data(depth, infrared) ==
    fill_instances(LoopOrder(0..(depth.width - 1), 0..(depth.height - 1)),
                   depth, infrared,
                   [depth_data |-> Buffer(F32Zero, instance_number),
                    infrared_data |-> Buffer(F32Zero, instance_number * 4)])

\* An index the loops write that is outside its Vec: Rust panics there.
writes_out_of_bounds(depth) ==
    \E x \in 0..(depth.width - 1), yy \in 0..(depth.height - 1) :
        /\ is_near_enough(normalized_depth(get_unchecked(depth, x, yy)))
        /\ update_instance_index(x, yy) >= instance_number

SizeMismatchMsg == "Make sure depth and infrared frames are the same size"
OutOfBoundsMsg == "index out of bounds"

\* Fails only when both the widths and the heights differ.
same_size_either(depth, infrared) ==
    ~(depth.width # infrared.width /\ depth.height # infrared.height)

same_size(depth, infrared) ==
    ~(depth.width # infrared.width \/ depth.height # infrared.height)

\* A slot that takes the newest frame whenever one arrives.
sync_slot_latest(slot, frames) ==
    IF frame_of_type_with_emitter(frames, 1) # None
    THEN frame_of_type_with_emitter(frames, 1) ELSE slot

\* The slot after the "Sync" block: a slot that holds a frame keeps it.
sync_slot(slot, frames) ==
    IF slot = None THEN frame_of_type_with_emitter(frames, 1) ELSE slot

\* update with `frames` the Option the wait returned.
Update3D(frames) ==
    LET d == IF frames # None THEN sync_slot(depth_frame, frames[1].depth) ELSE depth_frame
        i == IF frames # None THEN sync_slot(infrared_frame, frames[1].infrared)
             ELSE infrared_frame
    IN IF d # None /\ i # None
       THEN /\ depth_frame' = None
            /\ infrared_frame' = None
            /\ taken' = Some([depth |-> d[1], infrared |-> i[1]])
            /\ IF ~same_size(d[1], i[1])
               THEN /\ panic_msg' = Some(SizeMismatchMsg)
                    /\ UNCHANGED <<instance_height_vbo, instance_color_vbo>>
               ELSE IF writes_out_of_bounds(d[1])
               THEN /\ panic_msg' = Some(OutOfBoundsMsg)
                    /\ UNCHANGED <<instance_height_vbo, instance_color_vbo>>
               ELSE /\ instance_height_vbo' = instance_data(d[1], i[1]).depth_data
                    /\ instance_color_vbo' = instance_data(d[1], i[1]).infrared_data
                    /\ UNCHANGED panic_msg
       ELSE /\ depth_frame' = d
            /\ infrared_frame' = i
            /\ taken' = None
            /\ UNCHANGED <<instance_height_vbo, instance_color_vbo, panic_msg>>

\* The pipeline delivers at most MaxFrames composite frames; after that every
\* wait times out.
MaxFrames == 3

UpdateWithFrames ==
    /\ panic_msg = None
    /\ frame_number < MaxFrames
    /\ frame_number' = frame_number + 1
    /\ \E frames \in CompositeFrames(frame_number + 1) : Update3D(Some(frames))
    /\ UNCHANGED <<call, result, instance_translation_vbo, varsViewer>>

UpdateAfterTimeout ==
    /\ panic_msg = None
    /\ Update3D(None)
    /\ UNCHANGED <<call, result, instance_translation_vbo, frame_number, varsViewer>>

\* The state MyApp::new constructs.
new3d ==
    /\ depth_frame = None
    /\ infrared_frame = None
    /\ instance_translation_vbo = new_translation_data
    /\ instance_height_vbo = Buffer(F32One, instance_number)
    /\ instance_color_vbo = Buffer(F32Zero, instance_number * 4)
    /\ frame_number = 0
    /\ taken = None
    /\ panic_msg = None

NextView3D == UpdateWithFrames \/ UpdateAfterTimeout
InitView3D == new3d /\ new_viewer /\ connected = <<>> /\ call = None /\ result = None
SpecView3D == InitView3D /\ [][NextView3D]_vars

(***************************************************************************)
(* Stream viewer (realsense_viewer.rs): MyApp::update.                     *)
(*                                                                         *)
(* The strings the code inspects (device names and serial numbers) are     *)
(* sequences of characters; the messages it only stores are strings.  The  *)
(* five sensor-option flags and update_sensors change no state a pipeline  *)
(* decision reads and are left out.                                        *)
(***************************************************************************)
IntelRealSense == <<"I", "n", "t", "e", "l", " ", "R", "e", "a", "l", "S", "e", "n", "s", "e">>
NotAvailable == <<"N", "/", "A">>

\* A device is the info the SDK has for it: each of name and serial_number is
\* an Option.  Ports lists the devices that can be plugged in, in the order in
\* which query_devices enumerates them.
Ports ==
    <<[name |-> Some(IntelRealSense \o <<" ", "D", "4", "3", "5">>),
       serial_number |-> Some(<<"0", "0", "1">>)],
      [name |-> Some(<<"I", "n", "t", "e", "l", " ", "W", "e", "b", "c", "a", "m">>),
       serial_number |-> Some(<<"0", "0", "2">>)],
      [name |-> Some(IntelRealSense \o <<" ", "D", "4", "5", "5">>),
       serial_number |-> None]>>

\* context.query_devices(HashSet::new()) when the devices at `ports` are plugged in.
Present(ports, d) == \E i \in ports : Ports[i] = d
query_devices(ports) == SelectSeq(Ports, LAMBDA d : Present(ports, d))

\* match_info with the empty string for a missing info.
match_info_or_empty(device, info_param) ==
    IF device[info_param] = None THEN <<>> ELSE device[info_param][1]

\* Gets info from a device or returns "N/A".
match_info(device, info_param) ==
    IF device[info_param] = None THEN NotAvailable ELSE device[info_param][1]

get_serial_number(device) == match_info(device, "serial_number")

starts_with(str, prefix) ==
    Len(str) >= Len(prefix) /\ SubSeq(str, 1, Len(prefix)) = prefix

NoDevicesMsg == "No devices!"
DeviceGoneMsg(index) == "Device " \o ToString(index) \o " is gone"
NotRealSenseMsg(index) == "Device " \o ToString(index) \o " is not an Intel RealSense"
NeedStreamMsg == "We need at least one stream to start the pipeline"
StartFailedMsg == "Failed to start pipeline"
\* The text of the SDK's error when wait() fails.
WaitErrorMsg == "wait error"

\* The operators below take and return `self`, MyApp as a record, with the
\* history fields shown and ops and the field panic.
all_streams_disabled(self) ==
    /\ ~self.stream_enabled["depth"]
    /\ ~self.stream_enabled["color"]
    /\ ~self.stream_enabled["infrared_1"]
    /\ ~self.stream_enabled["infrared_2"]
    /\ ~self.stream_enabled["accel"]
    /\ ~self.stream_enabled["gyro"]

\* start_pipeline without the test of the six flags.
start_pipeline_unguarded(self, serial_number, start_ok) ==
    IF start_ok
    THEN [self EXCEPT !.pipeline = Some([serial_number |-> serial_number]),
                      !.ops = Append(@, <<"start", serial_number>>)]
    ELSE [self EXCEPT !.panic = Some(StartFailedMsg)]

\* start_pipeline(&mut self, serial_number, pipeline); start_ok is whether
\* pipeline.start(config) succeeds.  The caller has taken self.pipeline.
start_pipeline(self, serial_number, start_ok) ==
    IF all_streams_disabled(self)
    THEN [self EXCEPT !.warning = Some(NeedStreamMsg), !.pipeline = None]
    ELSE IF start_ok
    THEN [self EXCEPT !.pipeline = Some([serial_number |-> serial_number]),
                      !.ops = Append(@, <<"start", serial_number>>)]
    ELSE [self EXCEPT !.panic = Some(StartFailedMsg)]

\* The serial number of the pipeline's device read as missing.
current_serial_unknown(self) == NotAvailable

\* pipeline.profile().device() of an active pipeline has the serial number
\* the pipeline was configured with.
current_serial_number(self) == self.pipeline[1].serial_number

\* self.pipeline.take() followed by stop(), or a new inactive pipeline.
take_inactive(self) ==
    IF self.pipeline # None
    THEN [self EXCEPT !.pipeline = None, !.ops = Append(@, <<"stop">>)]
    ELSE self

\* update_pipeline_for_selected_device with the first two tests exchanged.
update_pipeline_gone_first(self, devices, start_ok) ==
    IF self.dev_index >= Len(devices)
    THEN [self EXCEPT !.pipeline = None, !.warning = Some(DeviceGoneMsg(self.dev_index))]
    ELSE IF Len(devices) = 0
    THEN [self EXCEPT !.pipeline = None, !.warning = Some(NoDevicesMsg)]
    ELSE LET new_device == devices[self.dev_index + 1]
             name == match_info(new_device, "name")
         IN IF ~starts_with(name, IntelRealSense)
            THEN [self EXCEPT !.pipeline = None,
                              !.warning = Some(NotRealSenseMsg(self.dev_index))]
            ELSE LET new_serial_number == get_serial_number(new_device)
                 IN IF self.pipeline # None
                       /\ new_serial_number = current_serial_number(self)
                    THEN self
                    ELSE start_pipeline(take_inactive(self), new_serial_number, start_ok)

update_pipeline_for_selected_device(self, devices, start_ok) ==
    IF Len(devices) = 0
    THEN [self EXCEPT !.pipeline = None, !.warning = Some(NoDevicesMsg)]
    ELSE IF self.dev_index >= Len(devices)
    THEN [self EXCEPT !.pipeline = None, !.warning = Some(DeviceGoneMsg(self.dev_index))]
    ELSE LET new_device == devices[self.dev_index + 1]
             name == match_info(new_device, "name")
         IN IF ~starts_with(name, IntelRealSense)
            THEN [self EXCEPT !.pipeline = None,
                              !.warning = Some(NotRealSenseMsg(self.dev_index))]
            ELSE LET new_serial_number == get_serial_number(new_device)
                 IN IF self.pipeline # None
                       /\ new_serial_number = current_serial_number(self)
                    THEN self
                    ELSE start_pipeline(take_inactive(self), new_serial_number, start_ok)

update_current_pipeline(self, start_ok) ==
    IF self.pipeline # None
    THEN start_pipeline(take_inactive(self), current_serial_number(self), start_ok)
    ELSE self

\* get_frames; wait_ok is whether pipeline.wait delivers within the timeout.
\* The frames it stores are only drawn.
get_frames(self, wait_ok) ==
    IF self.pipeline # None
    THEN IF wait_ok
         THEN [self EXCEPT !.ops = Append(@, <<"wait", TRUE>>)]
         ELSE [self EXCEPT !.warning = Some(WaitErrorMsg),
                           !.ops = Append(@, <<"wait", FALSE>>)]
    ELSE self

\* left_panel; click is the stream checkbox the user clicked, if any.
left_panel(self, click, start_ok) ==
    IF click = None THEN self
    ELSE update_current_pipeline(
            [self EXCEPT !.stream_enabled[click[1]] = ~@], start_ok)

\* bottom_panel; select is the index the user picked in the combo box, if any.
\* The warning is drawn last.
bottom_panel(self, devices, select) ==
    LET picked == IF select = None THEN self ELSE [self EXCEPT !.dev_index = select[1]]
    IN [picked EXCEPT !.shown = picked.warning]

Clicks == {None} \cup {Some(n) : n \in StreamNames}
Selections(devices) == {None} \cup {Some(i) : i \in 0..(Len(devices) - 1)}

\* update without the reset of the warning.
update_without_reset(self0, devices, start_ok, wait_ok, click, select) ==
    LET self1 == update_pipeline_for_selected_device(self0, devices, start_ok)
        self2 == IF self1.panic # None THEN self1 ELSE get_frames(self1, wait_ok)
        self3 == IF self2.panic # None THEN self2 ELSE left_panel(self2, click, start_ok)
    IN IF self3.panic # None THEN self3 ELSE bottom_panel(self3, devices, select)

\* update, up to the first panic; start_ok is whether the SDK starts a
\* pipeline during this update.
update(self0, devices, start_ok, wait_ok, click, select) ==
    LET self1 == update_pipeline_for_selected_device(
                     [self0 EXCEPT !.warning = None], devices, start_ok)
        self2 == IF self1.panic # None THEN self1 ELSE get_frames(self1, wait_ok)
        self3 == IF self2.panic # None THEN self2 ELSE left_panel(self2, click, start_ok)
    IN IF self3.panic # None THEN self3 ELSE bottom_panel(self3, devices, select)

\* The outcomes the SDK can give an update: one is drawn for pipeline.start and
\* for pipeline.wait only when the update, all going well, makes that call.
Outcomes(ops, op) == IF \E i \in DOMAIN ops : ops[i][1] = op THEN BOOLEAN ELSE {TRUE}

Update ==
    /\ panic_msg = None
    /\ \E click \in Clicks, select \in Selections(connected) :
       \E self0 \in {[dev_index |-> dev_index, warning |-> warning,
                      pipeline |-> pipeline, stream_enabled |-> stream_enabled,
                      shown |-> shown_warning, ops |-> <<>>, panic |-> None]} :
       \E calls \in {update(self0, connected, TRUE, TRUE, click, select).ops} :
       \E start_ok \in Outcomes(calls, "start"), wait_ok \in Outcomes(calls, "wait") :
       \E self \in {update(self0, connected, start_ok, wait_ok, click, select)} :
          /\ dev_index' = self.dev_index
          /\ warning' = self.warning
          /\ pipeline' = self.pipeline
          /\ stream_enabled' = self.stream_enabled
          /\ shown_warning' = self.shown
          /\ pipeline_ops' = self.ops
          /\ panic_msg' = self.panic
    /\ UNCHANGED <<call, result, vars3d, connected>>

\* The environment: a device is plugged in or unplugged between two updates.
MaxDevices == 2

\* The ports of the devices query_devices reports.
PluggedPorts == {i \in DOMAIN Ports : \E j \in DOMAIN connected : connected[j] = Ports[i]}

Plug ==
    /\ panic_msg = None
    /\ Len(connected) < MaxDevices
    /\ \E i \in DOMAIN Ports \ PluggedPorts :
          connected' = query_devices(PluggedPorts \cup {i})
    /\ UNCHANGED <<call, result, vars3d, panic_msg, dev_index, warning, pipeline,
                   stream_enabled, shown_warning, pipeline_ops>>

Unplug ==
    /\ panic_msg = None
    /\ \E i \in PluggedPorts :
          connected' = query_devices(PluggedPorts \ {i})
    /\ UNCHANGED <<call, result, vars3d, panic_msg, dev_index, warning, pipeline,
                   stream_enabled, shown_warning, pipeline_ops>>

InitViewer ==
    /\ new_viewer
    /\ connected \in {<<>>} \cup {query_devices({i}) : i \in DOMAIN Ports}
    /\ new3d
    /\ call = None
    /\ result = None

NextViewer == Update \/ Plug \/ Unplug
SpecViewer == InitViewer /\ [][NextViewer]_vars

(***************************************************************************)
(* SpecColormap: depth_frame_to_rgb_img applied to one pixel, and          *)
(* lerp_color applied to arguments of a grid.                              *)
(***************************************************************************)
\* Depths above max_value all clamp to 1.0; the model draws every depth up to
\* max_value + DepthSlack and the largest u16.
DepthSlack == 100
DepthInputs == 0..(MaxDepthMm + DepthSlack) \cup {65535}

\* lerp_color's f32 arguments are drawn from the grid k / LerpDen.
LerpDen == 10
MaxLerpNum == 5
LerpNums == (-1)..MaxLerpNum
LerpColours == {Blue, Cyan, Yellow, Red, Black, <<10, 100, 200>>, <<200, 100, 30>>}

JetCalls == {[fn |-> "jet", depth |-> d] : d \in DepthInputs}
LerpCalls ==
    {[fn |-> "lerp", value |-> v, v_min |-> a, c_min |-> c, v_max |-> b, c_max |-> d] :
        v \in LerpNums, a \in LerpNums, b \in LerpNums,
        c \in LerpColours, d \in LerpColours}

InitColormap ==
    /\ call \in JetCalls \cup LerpCalls
    /\ result = None
    /\ new3d
    /\ new_viewer
    /\ connected = <<>>

DepthPixel ==
    /\ call.fn = "jet"
    /\ result = None
    /\ result' = Some(depth_pixel_to_rgb(call.depth))
    /\ UNCHANGED <<call, vars3d, panic_msg, varsViewer>>

LerpColor ==
    /\ call.fn = "lerp"
    /\ result = None
    /\ result' = Some(lerp_color(F32Lit(call.value, LerpDen), F32Lit(call.v_min, LerpDen),
                                 call.c_min, F32Lit(call.v_max, LerpDen), call.c_max))
    /\ UNCHANGED <<call, vars3d, panic_msg, varsViewer>>

NextColormap == DepthPixel \/ LerpColor
SpecColormap == InitColormap /\ [][NextColormap]_vars

(***************************************************************************)
(* SpecDevices: the functions of both programs that read device info,      *)
(* applied to one call each.                                               *)
(***************************************************************************)
\* Gets info from a device or returns "N/A" (realsense_3d_viewer.rs).
match_info_3d(device, info_param) ==
    IF device[info_param] = None THEN NotAvailable ELSE device[info_param][1]

\* format!("{index}") of a u8.
DigitChars == <<"0", "1", "2", "3", "4", "5", "6", "7", "8", "9">>
RECURSIVE Decimal(_)
Decimal(n) ==
    IF n < 10 THEN <<DigitChars[n + 1]>>
    ELSE Append(Decimal(n \div 10), DigitChars[(n % 10) + 1])

\* format!("{index}: {name} ({serial_number})")
get_dev_repr(index, dev) ==
    LET name == match_info(dev, "name")
        serial_number == match_info(dev, "serial_number")
    IN Decimal(index) \o <<":", " ">> \o name \o <<" ", "(">> \o serial_number \o <<")">>

RECURSIVE find_realsense(_)
find_realsense(devices) ==
    IF devices = <<>> THEN None
    ELSE IF starts_with(match_info_3d(Head(devices), "name"), IntelRealSense)
    THEN Some(Head(devices))
    ELSE find_realsense(Tail(devices))

NoRealSenseMsg == "No RealSense device found!"
\* The panic of Option::unwrap() on None.
UnwrapNoneMsg == "called Option::unwrap() on a None value"

\* What start_pipeline of the 3D viewer leaves behind: the text on stderr, the
\* exit status, the panic message, the pipeline it returns.
Outcome3D == [stderr |-> None, exit_status |-> None, panic |-> None, pipeline |-> None]

\* start_pipeline(devices, pipeline) of the 3D viewer; start_ok is whether
\* pipeline.start(config) succeeds.
start_pipeline_3d(devices, start_ok) ==
    LET realsense_device == find_realsense(devices)
    IN IF realsense_device = None
       THEN [Outcome3D EXCEPT !.stderr = Some(NoRealSenseMsg), !.exit_status = Some(-1)]
       ELSE LET serial_number == realsense_device[1].serial_number
            IN IF serial_number = None
               THEN [Outcome3D EXCEPT !.panic = Some(UnwrapNoneMsg)]
               ELSE IF ~start_ok
               THEN [Outcome3D EXCEPT !.panic = Some(StartFailedMsg)]
               ELSE [Outcome3D EXCEPT !.pipeline = Some([serial_number |-> serial_number[1]])]

\* The devices the calls are made with: each info present or missing; names
\* with the prefix, with part of it, without it.
InfoNames ==
    {None,
     Some(IntelRealSense \o <<" ", "D", "4", "3", "5">>),
     Some(IntelRealSense),
     Some(<<"I", "n", "t", "e", "l", " ", "R", "e", "a", "l">>),
     Some(<<"W", "e", "b", "c", "a", "m">>)}
InfoSerials == {None, Some(<<"0", "0", "1">>), Some(<<"0", "0", "2">>)}
InfoDevices == [name : InfoNames, serial_number : InfoSerials]
InfoParams == {"name", "serial_number"}
ReprIndices == {0, 7, 10, 255}

MaxListLen == 2
RECURSIVE DeviceLists(_)
DeviceLists(n) ==
    IF n = 0 THEN {<<>>}
    ELSE DeviceLists(n - 1) \cup
         {Append(l, d) : l \in {k \in DeviceLists(n - 1) : Len(k) = n - 1}, d \in InfoDevices}

DeviceCalls ==
    {[fn |-> f, device |-> d, info_param |-> q] :
        f \in {"match_info", "match_info_3d"}, d \in InfoDevices, q \in InfoParams}
    \cup {[fn |-> "get_serial_number", device |-> d] : d \in InfoDevices}
    \cup {[fn |-> "get_dev_repr", index |-> i, dev |-> d] : i \in ReprIndices, d \in InfoDevices}
    \cup {[fn |-> "start_pipeline", devices |-> l] : l \in DeviceLists(MaxListLen)}

InitDevices ==
    /\ call \in DeviceCalls
    /\ result = None
    /\ new3d
    /\ new_viewer
    /\ connected = <<>>

MatchInfo ==
    /\ call.fn = "match_info"
    /\ result = None
    /\ result' = Some(match_info(call.device, call.info_param))
    /\ UNCHANGED <<call, vars3d, panic_msg, varsViewer>>

MatchInfo3D ==
    /\ call.fn = "match_info_3d"
    /\ result = None
    /\ result' = Some(match_info_3d(call.device, call.info_param))
    /\ UNCHANGED <<call, vars3d, panic_msg, varsViewer>>

GetSerialNumber ==
    /\ call.fn = "get_serial_number"
    /\ result = None
    /\ result' = Some(get_serial_number(call.device))
    /\ UNCHANGED <<call, vars3d, panic_msg, varsViewer>>

GetDevRepr ==
    /\ call.fn = "get_dev_repr"
    /\ result = None
    /\ result' = Some(get_dev_repr(call.index, call.dev))
    /\ UNCHANGED <<call, vars3d, panic_msg, varsViewer>>

StartPipeline3D ==
    /\ call.fn = "start_pipeline"
    /\ result = None
    /\ \E start_ok \in BOOLEAN : result' = Some(start_pipeline_3d(call.devices, start_ok))
    /\ UNCHANGED <<call, vars3d, panic_msg, varsViewer>>

NextDevices == MatchInfo \/ MatchInfo3D \/ GetSerialNumber \/ GetDevRepr \/ StartPipeline3D
SpecDevices == InitDevices /\ [][NextDevices]_vars

(***************************************************************************)
(* SpecMotion: the bars of a motion panel of the stream viewer             *)
(* (add_motion_frame_item), one call each.                                 *)
(***************************************************************************)
\* The rows under the bars that show the motion values.
MotionValuesRows == 18

\* let size = (size.0, size.1 - 18); size.1 as f32 / 2.0
bar_max_height(size_1) ==
    F32Div(F32FromInt(size_1 - MotionValuesRows), F32FromInt(2))

\* The height of a bar without the clamp.
bar_height_unclamped(component, max_height, scale) ==
    F32Mul(F32Mul(F32Neg(component), max_height), scale)

\* -component * bar_max_height * scale, clamped to the limits of the area.
bar_height(component, max_height, scale) ==
    F32Clamp(F32Mul(F32Mul(F32Neg(component), max_height), scale),
             F32Neg(max_height), max_height)

\* add_motion_frame_item: the signed heights of the three bars, in order.
add_motion_frame_item(data, size_1, scale) ==
    [i \in 1..3 |-> bar_height(data[i], bar_max_height(size_1), scale)]

\* Sensor readings are the literals n / MotionDen, |n| <= MaxMotionNum; the
\* first component takes each of them, the other two a few.  Panel heights
\* are at least the 18 rows the code subtracts.  The scales are the two the
\* callers pass: 0.5 for the gyro, 0.1 for the accelerometer.
MotionDen == 10
MaxMotionNum == 200
MotionNums == (-MaxMotionNum)..MaxMotionNum
MotionSideNums == {-MaxMotionNum, 0, 13}
MotionHeights == {18, 19, 75, 473}
MotionScales == {<<5, 10>>, <<1, 10>>}
MotionCalls ==
    {[fn |-> "add_motion_frame_item", data |-> <<a, b, c>>, size_1 |-> h, scale |-> k] :
        a \in MotionNums, b \in MotionSideNums, c \in MotionSideNums,
        h \in MotionHeights, k \in MotionScales}

InitMotion ==
    /\ call \in MotionCalls
    /\ result = None
    /\ new3d
    /\ new_viewer
    /\ connected = <<>>

AddMotionFrameItem ==
    /\ call.fn = "add_motion_frame_item"
    /\ result = None
    /\ result' = Some(add_motion_frame_item(
                          [i \in 1..3 |-> F32Lit(call.data[i], MotionDen)],
                          call.size_1, F32Lit(call.scale[1], call.scale[2])))
    /\ UNCHANGED <<call, vars3d, panic_msg, varsViewer>>

NextMotion == AddMotionFrameItem
SpecMotion == InitMotion /\ [][NextMotion]_vars

(***************************************************************************)
(* SpecPixels: the entries the loops of the 3D viewer's update write for   *)
(* two pixels of a depth/infrared pair, for frame sizes up to and beyond   *)
(* the grid side.                                                          *)
(***************************************************************************)
\* The entries written for pixel (x, yy) when it is near enough: one of
\* depth_data, four of infrared_data.  depth_data is indexed first, and an
\* index outside it panics before anything is written.
pixel_writes(x, yy) ==
    LET base_index == update_instance_index(x, yy) * 4
    IN IF update_instance_index(x, yy) >= instance_number
       THEN [depth_data |-> {}, infrared_data |-> {}, panic |-> Some(OutOfBoundsMsg)]
       ELSE [depth_data |-> {update_instance_index(x, yy)},
             infrared_data |-> base_index..(base_index + 3),
             panic |-> None]

\* Widths and heights of frames: tiny, the sizes RealSense streams have, the
\* grid side and one more.
FrameSides == {1, 2, 480, GridSide, GridSide + 1, 1280}
\* The first two and the last two coordinates of a side.
EdgeCoords(side) == {c \in {0, 1, side - 2, side - 1} : 0 <= c /\ c < side}

PixelCalls ==
    UNION {{[fn |-> "write_pixels", width |-> w, height |-> h, a |-> <<x1, y1>>, b |-> <<x2, y2>>] :
              x1 \in EdgeCoords(w), y1 \in EdgeCoords(h),
              x2 \in EdgeCoords(w), y2 \in EdgeCoords(h)} :
           w \in FrameSides, h \in FrameSides}

InitPixels ==
    /\ call \in PixelCalls
    /\ result = None
    /\ new3d
    /\ new_viewer
    /\ connected = <<>>

WritePixels ==
    /\ call.fn = "write_pixels"
    /\ result = None
    /\ result' = Some([a |-> pixel_writes(call.a[1], call.a[2]),
                       b |-> pixel_writes(call.b[1], call.b[2])])
    /\ UNCHANGED <<call, vars3d, panic_msg, varsViewer>>

NextPixels == WritePixels
SpecPixels == InitPixels /\ [][NextPixels]_vars

(***************************************************************************)
(* Properties.                                                             *)
(***************************************************************************)
Abs(i) == IF i < 0 THEN -i ELSE i
Between(c, a, b) == (a <= c /\ c <= b) \/ (b <= c /\ c <= a)

C2_StopDepth == <<0, 1000, 2000, 3000, 4000>>
C2_StopColour == <<<<0, 0, 255>>, <<0, 255, 255>>, <<255, 255, 0>>, <<255, 0, 0>>, <<0, 0, 0>>>>
C2_Segment(d) == IF d < 1000 THEN 1 ELSE IF d < 2000 THEN 2 ELSE IF d < 3000 THEN 3 ELSE 4
C2_Interpolated(depth) ==
    LET d == IF depth > 4000 THEN 4000 ELSE depth
        i == C2_Segment(d)
        lo == C2_StopDepth[i]
        hi == C2_StopDepth[i + 1]
    IN [ch \in 1..3 |->
           (C2_StopColour[i][ch] * (hi - lo)
              + (d - lo) * (C2_StopColour[i + 1][ch] - C2_StopColour[i][ch])) \div (hi - lo)]

\* C2: for every v in [0,1], jet_colormap(v) is the channel-wise linear
\* interpolation between the colours of the two adjacent stops of the ramp
\* 0, 0.25, 0.5, 0.75, 1.0.  One unit per channel is allowed for the rounding
\* of the f32 operations.
C2_InterpolatesAdjacentStops ==
    (call.fn = "jet" /\ result # None) =>
        \A ch \in 1..3 : Abs(result[1][ch] - C2_Interpolated(call.depth)[ch]) <= 1

\* C3: for v_min < v_max, lerp_color returns c_min when value <= v_min, c_max
\* when value >= v_max, and every channel it returns lies between the
\* channels of c_min and c_max.
C3_LerpClamped ==
    (call.fn = "lerp" /\ result # None /\ call.v_min < call.v_max) =>
        /\ call.value <= call.v_min => result[1] = call.c_min
        /\ call.value >= call.v_max => result[1] = call.c_max
        /\ \A ch \in 1..3 : Between(result[1][ch], call.c_min[ch], call.c_max[ch])

C3_Witness ==
    /\ call.fn = "lerp" /\ call.v_min < call.v_max /\ call.value > call.v_max
    /\ call.c_min = <<10, 100, 200>> /\ call.c_max = <<200, 100, 30>>
    /\ result = Some(<<200, 100, 30>>)

\* --- 3D viewer ---
\* floor(|a| * 2^20) of a finite f32 below 2^10, and floor(p * 2^20 / q).
RECURSIVE C_ScaledBits(_, _, _, _)
C_ScaledBits(r, q, acc, n) ==
    IF n = 0 THEN acc
    ELSE IF 2 * r >= q THEN C_ScaledBits(2 * r - q, q, 2 * acc + 1, n - 1)
    ELSE C_ScaledBits(2 * r, q, 2 * acc, n - 1)
C_Fixed(a) ==
    LET sh == a.e + 20
        mag == IF a.m = 0 THEN 0
               ELSE IF sh >= 0 THEN a.m * 2^sh
               ELSE IF -sh >= 30 THEN 0
               ELSE a.m \div 2^(-sh)
    IN IF a.s = 1 THEN -mag ELSE mag
C_FixedRatio(p, q) ==
    IF p < 0 THEN -C_ScaledBits((-p) % q, q, (-p) \div q, 20)
    ELSE C_ScaledBits(p % q, q, p \div q, 20)
\* The f32 a equals p / q up to the rounding of a few f32 operations (2^-19).
C_Near(a, p, q) == a.k = "num" /\ Abs(C_Fixed(a) - C_FixedRatio(p, q)) <= 1

\* 0 <= a < 3.8 and 0 <= a <= 1, exactly.
C_InHeightRange(a) ==
    a.k = "num" /\ a.s = 0 /\ (a.m = 0 \/ a.e < -22 \/ (a.e = -22 /\ a.m * 10 < 38 * 2^22))
C_InUnitRange(a) ==
    a.k = "num" /\ a.s = 0 /\ (a.m = 0 \/ a.e < -23 \/ (a.e = -23 /\ a.m = 2^23))

C_Uploaded == taken # None /\ panic_msg = None
C_Pixels(frame) == (0..(frame.width - 1)) \X (0..(frame.height - 1))
C_Height(i) == BufferGet(instance_height_vbo, i)
C_Colour(i) == BufferGet(instance_color_vbo, i)
C_Min(a, b) == IF a < b THEN a ELSE b

\* C4 as stated: the colour of a point is the jet colour of its depth,
\* (r/255, g/255, b/255) with (r, g, b) = jet_colormap(depth/4000).
C4_ColourIsJet ==
    C_Uploaded =>
        \A p \in C_Pixels(taken[1].depth) :
            LET d == taken[1].depth.data[p]
                i == p[1] * 640 + p[2]
                rgb == depth_pixel_to_rgb(d)
            IN d > 200 =>
                \A ch \in 1..3 : C_Near(C_Colour(i * 4 + ch - 1), rgb[ch], 255)

\* C4, amended: the colour of a point is the grey level of its infrared
\* intensity y: red, green and blue are the same f32 y/255 and alpha is 1.0,
\* whatever the depth; no jet colormap is applied in the 3D viewer.
C4_ColourIsInfraredGrey ==
    C_Uploaded =>
        \A p \in C_Pixels(taken[1].depth) :
            LET d == taken[1].depth.data[p]
                y == taken[1].infrared.data[p]
                i == p[1] * 640 + p[2]
            IN d > 200 =>
                /\ C_Near(C_Colour(i * 4), y, 255)
                /\ C_Colour(i * 4 + 1) = C_Colour(i * 4)
                /\ C_Colour(i * 4 + 2) = C_Colour(i * 4)
                /\ C_Colour(i * 4 + 3) = F32One

\* A point at 3 m, where the jet colour is red, drawn white from intensity 255.
C4_Witness ==
    /\ C_Uploaded
    /\ taken[1].depth.data[<<0, 0>>] = 3000
    /\ taken[1].infrared.data[<<0, 0>>] = 255
    /\ \A ch \in 0..3 : C_Colour(ch) = F32One

\* C5: with n = min(depth/4000, 1), a pixel with depth > 200 gets height
\* (1 - n) * 4 and colour (y/255, y/255, y/255, 1.0); a pixel with depth <= 200
\* and every entry no pixel covers get height 0 and colour (0,0,0,0); every
\* height lies in [0, 3.8) and every colour channel in [0, 1].
C5_LinearScaling ==
    C_Uploaded =>
        LET depth == taken[1].depth
            infrared == taken[1].infrared
            covered == {p[1] * 640 + p[2] : p \in {q \in C_Pixels(depth) : depth.data[q] > 200}}
        IN /\ \A p \in C_Pixels(depth) :
                LET d == depth.data[p]
                    y == infrared.data[p]
                    i == p[1] * 640 + p[2]
                IN IF d > 200
                   THEN /\ C_Near(C_Height(i), (4000 - C_Min(d, 4000)) * 4, 4000)
                        /\ \A ch \in 0..2 : C_Near(C_Colour(i * 4 + ch), y, 255)
                        /\ C_Colour(i * 4 + 3) = F32One
                   ELSE /\ C_Height(i) = F32Zero
                        /\ \A ch \in 0..3 : C_Colour(i * 4 + ch) = F32Zero
           /\ instance_height_vbo.fill = F32Zero
           /\ instance_color_vbo.fill = F32Zero
           /\ DOMAIN instance_height_vbo.at \subseteq covered
           /\ DOMAIN instance_color_vbo.at \subseteq {i * 4 + ch : i \in covered, ch \in 0..3}
           /\ \A i \in DOMAIN instance_height_vbo.at : C_InHeightRange(C_Height(i))
           /\ \A i \in DOMAIN instance_color_vbo.at : C_InUnitRange(C_Colour(i))

\* A pair with a pixel at 201 (just drawn) and a pixel at 200 (just dropped).
C5_Witness ==
    /\ C_Uploaded
    /\ \E p \in C_Pixels(taken[1].depth) :
          taken[1].depth.data[p] = 201 /\ C_Height(p[1] * 640 + p[2]) # F32Zero
    /\ \E p \in C_Pixels(taken[1].depth) :
          taken[1].depth.data[p] = 200 /\ C_Height(p[1] * 640 + p[2]) = F32Zero

\* C6: the instance x*640 + y that takes its height and colour from pixel
\* (x, y) is the instance whose translation is ((x - 320)/100, (y - 320)/100),
\* and the translations are in every state what start-up made them.
C6_SameInstanceIndex ==
    /\ \A x \in TrackedCoords, y \in TrackedCoords :
          /\ C_Near(BufferGet(instance_translation_vbo, (x * 640 + y) * 2), x - 320, 100)
          /\ C_Near(BufferGet(instance_translation_vbo, (x * 640 + y) * 2 + 1), y - 320, 100)
    /\ C_Uploaded =>
          \A p \in C_Pixels(taken[1].depth) :
              LET d == taken[1].depth.data[p]
                  y == taken[1].infrared.data[p]
                  i == p[1] * 640 + p[2]
              IN d > 200 =>
                  /\ C_Near(C_Height(i), (4000 - C_Min(d, 4000)) * 4, 4000)
                  /\ C_Near(C_Colour(i * 4), y, 255)
                  /\ C_Colour(i * 4 + 3) = F32One
                  /\ C_Near(BufferGet(instance_translation_vbo, i * 2), p[1] - 320, 100)
                  /\ C_Near(BufferGet(instance_translation_vbo, i * 2 + 1), p[2] - 320, 100)

\* A drawn pixel off the diagonal: (1, 0) is instance 640, not instance 1.
C6_Witness ==
    /\ C_Uploaded
    /\ taken[1].depth.width = 2
    /\ taken[1].depth.data[<<1, 0>>] > 200
    /\ C_Colour(640 * 4 + 3) = F32One
    /\ 1 \notin DOMAIN instance_height_vbo.at

\* C7: a frame in the depth slot or the infrared slot stays there, and is not
\* replaced by a newer frame, until an update pairs it with a frame of the
\* other kind.
C7_SlotKeptUntilPaired ==
    [][/\ depth_frame # None /\ depth_frame' # depth_frame =>
             /\ depth_frame' = None
             /\ taken' # None
             /\ taken'[1].depth = depth_frame[1]
       /\ infrared_frame # None /\ infrared_frame' # infrared_frame =>
             /\ infrared_frame' = None
             /\ taken' # None
             /\ taken'[1].infrared = infrared_frame[1]]_vars

\* A rendered pair whose frames came in different composite frames.
C7_Witness ==
    /\ C_Uploaded
    /\ taken[1].depth.number # taken[1].infrared.number

\* C8: when the frames of a pair differ in width or in height, update fails
\* with the size message before it uploads a height or colour buffer, and both
\* slots are empty.
C8_SizeMismatchPanics ==
    [][(/\ taken' # None
        /\ panic_msg = None
        /\ \/ taken'[1].depth.width # taken'[1].infrared.width
           \/ taken'[1].depth.height # taken'[1].infrared.height) =>
            /\ panic_msg' = Some("Make sure depth and infrared frames are the same size")
            /\ instance_height_vbo' = instance_height_vbo
            /\ instance_color_vbo' = instance_color_vbo
            /\ depth_frame' = None
            /\ infrared_frame' = None]_vars

\* A pair of equal width and different height has made update fail.
C8_Witness ==
    /\ panic_msg = Some("Make sure depth and infrared frames are the same size")
    /\ taken # None
    /\ taken[1].depth.width = taken[1].infrared.width
    /\ taken[1].depth.height # taken[1].infrared.height
    /\ depth_frame = None /\ infrared_frame = None

(***************************************************************************)
(* Stream viewer properties, checked under SpecViewer.  A step that        *)
(* changes the state and leaves `connected` alone is a step of Update.     *)
(***************************************************************************)
C_AllOff(enabled) ==
    \A n \in {"depth", "color", "infrared_1", "infrared_2", "accel", "gyro"} : ~enabled[n]

C_HasRealSenseName(device) ==
    /\ device.name # None
    /\ Len(device.name[1]) >= 15
    /\ SubSeq(device.name[1], 1, 15) =
           <<"I", "n", "t", "e", "l", " ", "R", "e", "a", "l", "S", "e", "n", "s", "e">>

C_ValidSelected ==
    /\ dev_index < Len(connected)
    /\ C_HasRealSenseName(connected[dev_index + 1])

C_Started(ops) == \E i \in DOMAIN ops : ops[i][1] = "start"

\* C9: an update that begins with a RealSense device selected and ends with
\* all six stream toggles off (and does not panic) leaves pipeline = None and
\* the warning "We need at least one stream to start the pipeline", which the
\* bottom panel shows; when the toggles were off already at its beginning,
\* the update starts no pipeline at all.
C9_NoStreamNoPipeline ==
    [][(/\ connected' = connected
        /\ panic_msg' = None
        /\ C_ValidSelected
        /\ C_AllOff(stream_enabled'))
       => (/\ pipeline' = None
           /\ warning' = Some("We need at least one stream to start the pipeline")
           /\ shown_warning' = warning'
           /\ C_AllOff(stream_enabled) => ~C_Started(pipeline_ops'))]_vars

\* The toggles were off before the latest update, which ran with a RealSense
\* device selected and refused to start.
C9_Witness ==
    /\ C_AllOff(stream_enabled)
    /\ C_ValidSelected
    /\ pipeline_ops = <<>>
    /\ pipeline = None
    /\ shown_warning = Some("We need at least one stream to start the pipeline")

\* C10: an update drops the pipeline and shows, in the bottom panel, the
\* warning of the first case that applies: "No devices!" for an empty device
\* list, else "Device N is gone" when dev_index is not below the number of
\* devices, else "Device N is not an Intel RealSense" when the name of the
\* selected device lacks that prefix (N is dev_index when the update begins).
C10_DeviceWarnings ==
    [][connected' = connected
       => (/\ Len(connected) = 0
              => (/\ pipeline' = None
                  /\ warning' = Some("No devices!")
                  /\ shown_warning' = warning')
           /\ (Len(connected) > 0 /\ dev_index >= Len(connected))
              => (/\ pipeline' = None
                  /\ warning' = Some("Device " \o ToString(dev_index) \o " is gone")
                  /\ shown_warning' = warning')
           /\ (dev_index < Len(connected) /\ ~C_HasRealSenseName(connected[dev_index + 1]))
              => (/\ pipeline' = None
                  /\ warning' = Some("Device " \o ToString(dev_index)
                                        \o " is not an Intel RealSense")
                  /\ shown_warning' = warning'))]_vars

\* The bottom panel showed that the selected device is gone while another
\* device is still connected.
C10_Witness ==
    /\ Len(connected) = 1
    /\ dev_index = 1
    /\ pipeline = None
    /\ shown_warning = Some("Device 1 is gone")

C_SerialOf(device) ==
    IF device.serial_number = None THEN <<"N", "/", "A">> ELSE device.serial_number[1]

\* C11: an update that begins with an active pipeline and a RealSense device
\* selected does nothing to the pipeline before it waits for frames when the
\* serial number of the selected device is the one of the pipeline (and leaves
\* the pipeline as it was when no stream toggle is clicked afterwards);
\* otherwise it first stops the pipeline and then starts one for the serial
\* number of the selected device, unless that start panics.
C11_UpdatedOnlyIfNeeded ==
    [][(/\ connected' = connected
        /\ pipeline # None
        /\ C_ValidSelected)
       => LET new_serial_number == C_SerialOf(connected[dev_index + 1])
              ops == pipeline_ops'
          IN IF pipeline[1].serial_number = new_serial_number
             THEN /\ Len(ops) >= 1
                  /\ ops[1][1] = "wait"
                  /\ Len(ops) = 1 => pipeline' = pipeline
             ELSE /\ Len(ops) >= 1
                  /\ ops[1] = <<"stop">>
                  /\ Len(ops) >= 2 => ops[2] = <<"start", new_serial_number>>
                  /\ panic_msg' = None => Len(ops) >= 3 /\ ops[3][1] = "wait"
                  /\ Len(ops) = 3 => pipeline' = Some([serial_number |-> new_serial_number])]_vars

\* The latest update found a pipeline for another device, stopped it and
\* started one for the selected device, the one without a serial number.
C11_Witness ==
    /\ Len(pipeline_ops) = 3
    /\ pipeline_ops[1] = <<"stop">>
    /\ pipeline_ops[2] = <<"start", <<"N", "/", "A">>>>
    /\ pipeline = Some([serial_number |-> <<"N", "/", "A">>])
    /\ panic_msg = None

C_Delivered(ops) == \E i \in DOMAIN ops : ops[i][1] = "wait" /\ ops[i][2]

\* C12: an update that begins with a RealSense device selected, gets frames
\* from the pipeline within the timeout and ends with at least one stream
\* toggle on (and does not panic) shows no warning in the bottom panel,
\* whatever warning was set when it began.
C12_WarningResetEachUpdate ==
    [][(/\ connected' = connected
        /\ panic_msg' = None
        /\ C_ValidSelected
        /\ C_Delivered(pipeline_ops')
        /\ ~C_AllOff(stream_enabled'))
       => (warning' = None /\ shown_warning' = None)]_vars

\* The latest update started a pipeline, got frames and showed no warning
\* although a toggle was off before it: it began in a state that an earlier
\* update had left without a pipeline, hence with a warning.
C12_Witness ==
    /\ \E n \in DOMAIN stream_enabled : ~stream_enabled[n]
    /\ Len(pipeline_ops) = 2
    /\ pipeline_ops[1][1] = "start"
    /\ pipeline_ops[2] = <<"wait", TRUE>>
    /\ pipeline # None
    /\ panic_msg = None
    /\ shown_warning = None

(***************************************************************************)
(* Device info properties, checked under SpecDevices.                      *)
(***************************************************************************)
C_NA == <<"N", "/", "A">>
C_InfoOr(device, info_param) ==
    IF device[info_param] = <<>> THEN C_NA ELSE device[info_param][1]
C_IndexText(index) ==
    CASE index = 0 -> <<"0">>
      [] index = 7 -> <<"7">>
      [] index = 10 -> <<"1", "0">>
      [] index = 255 -> <<"2", "5", "5">>

\* C13: match_info, in both programs, returns the info string of the device
\* when the device has that info and "N/A" when it has none; get_serial_number
\* returns the serial number or "N/A", and get_dev_repr returns
\* "index: name (serial number)" with "N/A" for a missing name or serial number.
C13_InfoOrNotAvailable ==
    result # None =>
        /\ call.fn \in {"match_info", "match_info_3d"}
           => result[1] = C_InfoOr(call.device, call.info_param)
        /\ call.fn = "get_serial_number"
           => result[1] = C_InfoOr(call.device, "serial_number")
        /\ call.fn = "get_dev_repr"
           => result[1] = C_IndexText(call.index) \o <<":", " ">> \o C_InfoOr(call.dev, "name")
                          \o <<" ", "(">> \o C_InfoOr(call.dev, "serial_number") \o <<")">>

\* get_dev_repr of device 10, which has neither a name nor a serial number.
C13_Witness ==
    /\ call.fn = "get_dev_repr"
    /\ call.index = 10
    /\ call.dev.name = <<>>
    /\ call.dev.serial_number = <<>>
    /\ result = <<<<"1", "0", ":", " ", "N", "/", "A", " ", "(", "N", "/", "A", ")">>>>

C_RealSenseAt(devices) == {i \in DOMAIN devices : C_HasRealSenseName(devices[i])}
C_FirstRealSense(devices) ==
    CHOOSE i \in C_RealSenseAt(devices) : \A j \in C_RealSenseAt(devices) : i <= j

\* C14: unless pipeline.start itself fails, start_pipeline of the 3D viewer
\* returns a pipeline started on the first device of the list whose name starts
\* with "Intel RealSense"; when no device has such a name it prints
\* "No RealSense device found!", exits with status -1 and starts no pipeline.
C14_StartsOnFirstRealSense ==
    (call.fn = "start_pipeline" /\ result # None) =>
        IF C_RealSenseAt(call.devices) # {}
        THEN result[1].panic # Some("Failed to start pipeline")
             => /\ result[1].pipeline # None
                /\ result[1].exit_status = None
                /\ <<result[1].pipeline[1].serial_number>>
                       = call.devices[C_FirstRealSense(call.devices)].serial_number
        ELSE /\ result[1].stderr = Some("No RealSense device found!")
             /\ result[1].exit_status = Some(-1)
             /\ result[1].pipeline = None
             /\ result[1].panic = None

(***************************************************************************)
(* Motion panel properties, checked under SpecMotion.                      *)
(***************************************************************************)
\* |h| <= area / 2, exactly, for an f32 h and an integer area >= 0.
C_WithinHalf(h, area) ==
    /\ h.k = "num"
    /\ \/ h.m = 0
       \/ /\ h.e + 1 < 0
          /\ \/ -(h.e + 1) >= 25 /\ area >= 1
             \/ -(h.e + 1) < 25 /\ (h.m + 2^(-(h.e + 1)) - 1) \div 2^(-(h.e + 1)) <= area

\* h is exactly sign * area / 2.
C_IsHalf(h, sign, area) ==
    /\ h.k = "num"
    /\ IF area = 0 THEN h.m = 0
       ELSE /\ h.s = (IF sign < 0 THEN 1 ELSE 0)
            /\ h.e + 1 <= 0
            /\ -(h.e + 1) < 25
            /\ h.m = area * 2^(-(h.e + 1))

\* The bar of component n / MotionDen in an area of the given height.
C_BarAsClaimed(h, n, area, scale) ==
    /\ C_WithinHalf(h, area)
    /\ (Abs(n) * scale[1] * 1024 >= 1025 * MotionDen * scale[2])
       => C_IsHalf(h, -n, area)
    /\ (Abs(n) * scale[1] * 1024 <= 1023 * MotionDen * scale[2])
       => Abs(C_Fixed(h) - C_FixedRatio(-n * area * scale[1], MotionDen * 2 * scale[2])) <= 128

\* C15: each of the three bars of a motion panel has the signed height
\* -component * bar_max_height * scale clamped to [-bar_max_height,
\* bar_max_height], where bar_max_height is half the height of the area the
\* bars are drawn in: it never exceeds that half in either direction, it is
\* exactly that half (upwards for a positive component) once |component| *
\* scale exceeds 1, and it is the product below that.
C15_BarsClamped ==
    (call.fn = "add_motion_frame_item" /\ result # None) =>
        \A i \in 1..3 :
            C_BarAsClaimed(result[1][i], call.data[i], call.size_1 - 18, call.scale)

\* A gyro panel with a clamped upward bar (20 rad/s), a clamped downward bar
\* and a bar of 1.3 rad/s at 0.65 of the half height.
C15_Witness ==
    /\ call.fn = "add_motion_frame_item"
    /\ call.data = <<200, -200, 13>>
    /\ call.size_1 = 473
    /\ call.scale = <<5, 10>>
    /\ result # None
    /\ C_IsHalf(result[1][1], -1, 455)
    /\ C_IsHalf(result[1][2], 1, 455)
    /\ result[1][3].s = 1
    /\ ~C_IsHalf(result[1][3], -1, 455)

(***************************************************************************)
(* Buffer index properties, checked under SpecPixels.                      *)
(***************************************************************************)
C_WritesAsClaimed(w, x, yy) ==
    /\ w.panic = None
    /\ w.depth_data = {x * 640 + yy}
    /\ w.infrared_data = {(x * 640 + yy) * 4 + k : k \in 0..3}
    /\ w.depth_data \subseteq 0..(640 * 640 - 1)
    /\ w.infrared_data \subseteq 0..(640 * 640 * 4 - 1)

\* C16: for a depth/infrared pair at most 640 wide and 640 high, the entries
\* written for a pixel (x, yy) are x*640 + yy of the height buffer and
\* (x*640 + yy)*4 .. +3 of the colour buffer, all inside the buffers of
\* 640*640 and 640*640*4 entries, and two different pixels write no entry in
\* common.
C16_WritesInBoundsAndDisjoint ==
    (/\ call.fn = "write_pixels"
     /\ result # None
     /\ call.width <= 640
     /\ call.height <= 640)
    => /\ C_WritesAsClaimed(result[1].a, call.a[1], call.a[2])
       /\ C_WritesAsClaimed(result[1].b, call.b[1], call.b[2])
       /\ call.a # call.b
          => /\ result[1].a.depth_data \cap result[1].b.depth_data = {}
             /\ result[1].a.infrared_data \cap result[1].b.infrared_data = {}

\* The last pixel of a 640 x 640 pair writes the last entry of each buffer,
\* the first pixel of the next column the entry after those of pixel (0, 639).
C16_Witness ==
    /\ call.fn = "write_pixels"
    /\ call.width = 640
    /\ call.height = 640
    /\ call.a = <<639, 639>>
    /\ call.b = <<1, 0>>
    /\ result # None
    /\ result[1].a.depth_data = {409599}
    /\ result[1].a.infrared_data = 1638396..1638399
    /\ result[1].b.depth_data = {640}

====
